---- MODULE Spec2Model ----
(***************************************************************************)
(* State-machine model of monoidic/ip-tools: the binary prefix trie and    *)
(* its bit codec (src/trie.py), the IPv4 range decomposition and the line  *)
(* reader of the RIR file parser (src/parse_rir_file.py).                  *)
(*                                                                         *)
(* Four machines share the module, each with its own specification:        *)
(*   TrieSpec    one Trie and the insert / merge / entries calls on it     *)
(*   CodecSpec   ip_to_bools followed by _bools_to_ip on one network       *)
(*   RangeSpec   the generator ipv4_range_to_subnets, run step by step     *)
(*   ParseSpec   parse_file's reads of one input file                      *)
(* A specification leaves the variables of the other machines untouched.   *)
(***************************************************************************)
EXTENDS Integers, Sequences, FiniteSets, TLC

(***************************************************************************)
(* Bounds of the model.                                                    *)
(***************************************************************************)
\* Width in bits of the trie's v4 family; stands for the 32 of trie.py:118.
V4Width == 1
\* Width in bits of the trie's v6 family; stands for the 128 of trie.py:118.
V6Width == 2
\* Number of nodes one trie holds, the root included.
MaxNodes == 5
\* Width in bits of an IPv4 address in the range decomposition; stands for
\* the 32 of ipaddress.IPv4Address and of parse_rir_file.py:57.
AddrBits == 4
\* Largest count a summary line of an input file declares.
MaxCount == 1
\* Number of lines an input file holds after its summary lines.
MaxBody == 3

VARIABLES
    \* TrieSpec
    tree,          \* Trie.tree: the nodes, keyed by their bit path from the root
    addr_type,     \* the IPVersion every call on this trie is made with
    last,          \* the last call made on the trie and how it ended
    \* CodecSpec
    ip_net,        \* the network handed to ip_to_bools
    bools,         \* the bit sequence ip_to_bools yields
    decoded,       \* what _bools_to_ip makes of it
    cpc,           \* "encode", "decode" or "done"
    \* RangeSpec
    start,         \* ipv4_range_to_subnets' argument start, as an integer
    num_in,        \* its argument num, as passed
    current_start, \* its local current_start
    num,           \* its local num, the hosts still to cover
    ip_bits,       \* get_host_max_len's local ip_bits
    res,           \* get_host_max_len's local res
    subnets,       \* the blocks yielded so far
    rpc,           \* "loop", "hostlen", "done" or "error"
    \* ParseSpec
    fd,            \* the lines of the input file
    pos,           \* number of lines read from fd so far
    n_summaries,   \* summary lines parsed so far
    num_records,   \* parse_file's num_records
    n_parsed,      \* data lines parsed so far
    ppc            \* the stage parse_file is in, or how it ended

trieVars == <<tree, addr_type, last>>
codecVars == <<ip_net, bools, decoded, cpc>>
rangeVars == <<start, num_in, current_start, num, ip_bits, res, subnets, rpc>>
parseVars == <<fd, pos, n_summaries, num_records, n_parsed, ppc>>
vars == <<trieVars, codecVars, rangeVars, parseVars>>

(***************************************************************************)
(* src/trie.py                                                             *)
(***************************************************************************)
v4 == 4
v6 == 6
IPVersion == {v4, v6}

\* Node.__init__'s default value, False: "no value here".  The code only
\* ever tests a value for truth before it compares it, so every falsy
\* Python value (False, 0, None, '') behaves as this one.
NoValue == ""
\* Python truthiness of a node value, as tested by `if self.value`.
Truthy(value) == value # NoValue
\* Values handed to insert: the empty one and two non-empty ones.
Values == {NoValue, "X", "Y"}

\* max_prefix_len / max_len of insert, _get_entries and _merge_entries.
max_prefix_len(family) == IF family = v4 THEN V4Width ELSE V6Width

\* Bit sequences handed to insert: every one of at most width + 2 bits.
RECURSIVE BitSeqsOfLen(_)
BitSeqsOfLen(n) ==
    IF n = 0 THEN {<<>>}
    ELSE {Append(s, b) : s \in BitSeqsOfLen(n - 1), b \in BOOLEAN}
BitSeqs(family) ==
    UNION {BitSeqsOfLen(n) : n \in 0 .. max_prefix_len(family) + 2}

IsPrefix(p, q) == Len(p) <= Len(q) /\ SubSeq(q, 1, Len(p)) = p
StrictlyBelow(p, q) == Len(p) < Len(q) /\ IsPrefix(p, q)

\* Trie.__init__: a root Node() without value or children.
EmptyTrie == (<<>> :> NoValue)

\* A slip of SetLeaf: the value is set and the children are kept.
SetValueOnly(t, node, value) == [t EXCEPT ![node] = value]

\* A slip of SetLeaf: `current.right = None` is forgotten.
SetLeafKeepRight(t, node, value) ==
    [q \in {q \in DOMAIN t : ~StrictlyBelow(Append(node, FALSE), q)
                             /\ q # Append(node, FALSE)} |->
        IF q = node THEN value ELSE t[q]]

\* `node.left = None; node.right = None; node.value = value`.
SetLeaf(t, node, value) ==
    [q \in {q \in DOMAIN t : ~StrictlyBelow(node, q)} |->
        IF q = node THEN value ELSE t[q]]

\* What the f-string of the conflict error does: _bools_to_ip(addr_type, it)
\* raises its own ValueError for a sequence over the width.
ConflictRaise(family, it) ==
    IF Len(it) > max_prefix_len(family) THEN "prefix length over" ELSE "conflict"

\* A slip of ShorterExists: the test for an existing shorter entry is left out.
ShorterNeverExists(t, current) == FALSE

\* `if current.value:  # entry with shorter prefixlen already exists`.
ShorterExists(t, current) == Truthy(t[current])

\* Trie.insert's loop from index prefix_len with `current` the node reached.
RECURSIVE insert_walk(_, _, _, _, _, _, _)
insert_walk(t, family, it, value, error_on_conflict, current, prefix_len) ==
    IF prefix_len >= Len(it)
    THEN [tree |-> SetLeaf(t, current, value), result |-> "ok"]
    ELSE IF prefix_len > max_prefix_len(family)
    THEN [tree |-> t, result |-> "prefix over"]
    ELSE IF ShorterExists(t, current)
    THEN [tree |-> t,
          result |-> IF error_on_conflict THEN ConflictRaise(family, it)
                     ELSE "dropped"]
    ELSE LET child == Append(current, it[prefix_len + 1])
             t2 == IF child \in DOMAIN t THEN t ELSE (child :> NoValue) @@ t
         IN insert_walk(t2, family, it, value, error_on_conflict, child,
                        prefix_len + 1)

\* Trie.insert: the trie it leaves and how the call ends ("ok", "dropped"
\* for the silent return, or the ValueError raised).
insert(t, family, it, value, error_on_conflict) ==
    insert_walk(t, family, it, value, error_on_conflict, <<>>, 0)

\* A slip of ShouldCollapse: the two values are not compared.
ShouldCollapseAny(l_value, r_value) == Truthy(l_value) /\ Truthy(r_value)

\* `if l_value and l_value == self.right.value`.
ShouldCollapse(l_value, r_value) == Truthy(l_value) /\ l_value = r_value

\* A slip of Node_merge_entries: the node is considered before its children
\* are merged.
RECURSIVE Node_merge_entries_preorder(_, _, _, _)
Node_merge_entries_preorder(t, self, n_type, cur_len) ==
    IF cur_len > max_prefix_len(n_type)
    THEN [tree |-> t, raised |-> TRUE]
    ELSE LET left == Append(self, FALSE)
             right == Append(self, TRUE)
             t1 == IF /\ {left, right} \subseteq DOMAIN t
                      /\ ShouldCollapse(t[left], t[right])
                   THEN SetLeaf(t, self, t[left]) ELSE t
             afterLeft == IF left \in DOMAIN t1
                          THEN Node_merge_entries_preorder(t1, left, n_type,
                                                           cur_len + 1)
                          ELSE [tree |-> t1, raised |-> FALSE]
         IN IF afterLeft.raised THEN afterLeft
            ELSE IF right \in DOMAIN afterLeft.tree
            THEN Node_merge_entries_preorder(afterLeft.tree, right, n_type,
                                             cur_len + 1)
            ELSE afterLeft

\* Node._merge_entries on the node at path `self`; raised is the
\* ValueError('Too deep in trie'), which keeps the merges already done.
RECURSIVE Node_merge_entries(_, _, _, _)
Node_merge_entries(t, self, n_type, cur_len) ==
    IF cur_len > max_prefix_len(n_type)
    THEN [tree |-> t, raised |-> TRUE]
    ELSE LET left == Append(self, FALSE)
             right == Append(self, TRUE)
             afterLeft == IF left \in DOMAIN t
                          THEN Node_merge_entries(t, left, n_type, cur_len + 1)
                          ELSE [tree |-> t, raised |-> FALSE]
             afterRight == IF afterLeft.raised THEN afterLeft
                           ELSE IF right \in DOMAIN afterLeft.tree
                           THEN Node_merge_entries(afterLeft.tree, right,
                                                   n_type, cur_len + 1)
                           ELSE afterLeft
             t2 == afterRight.tree
             num_children == Cardinality({left, right} \cap DOMAIN t2)
         IN IF afterRight.raised THEN afterRight
            ELSE IF num_children = 2 /\ ShouldCollapse(t2[left], t2[right])
            THEN [tree |-> SetLeaf(t2, self, t2[left]), raised |-> FALSE]
            ELSE afterRight

\* Trie._merge_entries.
Trie_merge_entries(t, family) == Node_merge_entries(t, <<>>, family, 0)

\* Node._get_entries: the (bits, value) pairs yielded, zero-branch first, and
\* whether the generator ended with ValueError('prefix over ...').
RECURSIVE Node_get_entries(_, _, _)
Node_get_entries(t, family, prev_bits) ==
    IF Len(prev_bits) > max_prefix_len(family)
    THEN [entries |-> <<>>, raised |-> TRUE]
    ELSE IF Truthy(t[prev_bits])
    THEN [entries |-> <<[bits |-> prev_bits, value |-> t[prev_bits]]>>,
          raised |-> FALSE]
    ELSE LET left == Append(prev_bits, FALSE)
             right == Append(prev_bits, TRUE)
             none == [entries |-> <<>>, raised |-> FALSE]
             l == IF left \in DOMAIN t
                  THEN Node_get_entries(t, family, left) ELSE none
             r == IF l.raised THEN none
                  ELSE IF right \in DOMAIN t
                  THEN Node_get_entries(t, family, right) ELSE none
         IN [entries |-> l.entries \o r.entries,
             raised |-> l.raised \/ r.raised]

\* Trie._get_entries, each entry kept as its bit sequence: _bools_to_ip maps
\* the bit sequences of at most max_prefix_len bits one to one to networks,
\* and network containment is the prefix order of the bit sequences.
Trie_get_entries(t, family) == Node_get_entries(t, family, <<>>)

\* The (bits, value) pairs of the nodes that carry a value.
Held(t) ==
    {[bits |-> p, value |-> t[p]] : p \in {q \in DOMAIN t : Truthy(t[q])}}

(***************************************************************************)
(* The bit codec of src/trie.py, at the real widths.  A network is         *)
(* [version, packed, prefixlen]: packed is network_address.packed, the     *)
(* address as 4 or 16 bytes, most significant first.                       *)
(***************************************************************************)
RECURSIVE Pow2(_)
Pow2(n) == IF n = 0 THEN 1 ELSE 2 * Pow2(n - 1)

_shifts == <<7, 6, 5, 4, 3, 2, 1, 0>>

\* A slip of _masks: the masks in least-significant-first order.
_masks_lsb_first == [i \in 1 .. 8 |-> Pow2(i - 1)]

_masks == [i \in 1 .. 8 |-> Pow2(_shifts[i])]

\* addr_bytes and max_prefix_len of _bools_to_ip.
addr_bytes(family) == IF family = v4 THEN 4 ELSE 16
codec_max_prefix_len(family) == addr_bytes(family) * 8

\* bool(byte & mask) for a mask of one bit.
ByteAndMask(byte, mask) == (byte \div mask) % 2 = 1

\* ip_to_bools: the first prefixlen items of the product of the packed bytes
\* with the masks.
ip_to_bools(net) ==
    [i \in 1 .. net.prefixlen |->
        ByteAndMask(net.packed[((i - 1) \div 8) + 1], _masks[((i - 1) % 8) + 1])]

\* sum(bit << shift for bit, shift in zip(partial, _shifts)).
RECURSIVE PackByte(_, _)
PackByte(partial, i) ==
    IF i > Len(partial) THEN 0
    ELSE (IF partial[i] THEN Pow2(_shifts[i]) ELSE 0) + PackByte(partial, i + 1)

\* The while loop of _bools_to_ip, eight bits a turn; "raise" is its else
\* branch, ValueError('prefix length over ...').
RECURSIVE PackLoop(_, _, _, _)
PackLoop(family, rest, packed, prefixlen) ==
    IF prefixlen <= codec_max_prefix_len(family)
    THEN LET n == IF Len(rest) < 8 THEN Len(rest) ELSE 8
             partial == SubSeq(rest, 1, n)
         IN IF partial = <<>>
            THEN [raised |-> FALSE, packed |-> packed, prefixlen |-> prefixlen]
            ELSE PackLoop(family, SubSeq(rest, n + 1, Len(rest)),
                          Append(packed, PackByte(partial, 1)),
                          prefixlen + Len(partial))
    ELSE [raised |-> TRUE, packed |-> packed, prefixlen |-> prefixlen]

\* Whether the address has a bit set after its first prefixlen bits.
HasHostBits(packed, prefixlen) ==
    \E i \in prefixlen + 1 .. 8 * Len(packed) :
        ByteAndMask(packed[((i - 1) \div 8) + 1], Pow2(7 - ((i - 1) % 8)))

\* _bools_to_ip: the packed bytes are filled with zero bytes up to
\* addr_bytes, ip_address reads the family off their number and ip_network
\* refuses a network with host bits set.
_bools_to_ip(family, bits) ==
    LET r == PackLoop(family, bits, <<>>, 0)
        packed == r.packed \o [i \in 1 .. addr_bytes(family) - Len(r.packed) |-> 0]
    IN IF r.raised THEN "prefix length over"
       ELSE IF HasHostBits(packed, r.prefixlen) THEN "has host bits set"
       ELSE [version |-> IF Len(packed) = 4 THEN v4 ELSE v6,
             packed |-> packed, prefixlen |-> r.prefixlen]

\* The network of the given prefix length that holds the address `seed`.
MaskTo(seed, prefixlen) ==
    [i \in 1 .. Len(seed) |->
        IF 8 * i <= prefixlen THEN seed[i]
        ELSE IF 8 * (i - 1) >= prefixlen THEN 0
        ELSE LET low == Pow2(8 * i - prefixlen)
             IN (seed[i] \div low) * low]

\* Addresses the networks are cut from: all ones, alternating bits both
\* ways, a lone bit at either end of every byte, and one whose bytes all
\* differ.
SeedBytes == {255, 170, 85, 129}
Seeds(family) ==
    {[i \in 1 .. addr_bytes(family) |-> b] : b \in SeedBytes}
    \cup {[i \in 1 .. addr_bytes(family) |-> (17 * i) % 256]}

\* Every valid network of the family around one of the seeds.
Networks ==
    {[version |-> f, packed |-> MaskTo(s, n), prefixlen |-> n] :
        <<f, s, n>> \in UNION {{f} \X Seeds(f) \X (0 .. codec_max_prefix_len(f)) :
                               f \in IPVersion}}

(***************************************************************************)
(* src/parse_rir_file.py: the IPv4 range decomposition.  Addresses are     *)
(* integers below 2^AddrBits; a block is [address, prefixlen].             *)
(***************************************************************************)
AddrLimit == Pow2(AddrBits)

\* int(math.log2(num)) for num >= 1; the float is exact enough below 2^53.
RECURSIVE FloorLog2(_)
FloorLog2(n) == IF n < 2 THEN 0 ELSE 1 + FloorLog2(n \div 2)

Min(a, b) == IF a < b THEN a ELSE b

\* res has no bound in the code.  The model counts it modulo ResWrap, which
\* is above the alignment of every nonzero address: a wrap happens only in
\* a run of get_host_max_len that never ends.
ResWrap == AddrBits + 2

\* `while not ip_bits & 1`.
HostLenLoops(bits) == bits % 2 = 0

\* subnet_bits of ipv4_range_to_subnets, res being get_host_max_len's result.
subnet_bits(n, r) == Min(FloorLog2(n), r)

(***************************************************************************)
(* src/parse_rir_file.py: the reads of parse_file.  A line of the file is  *)
(* [kind, count]: a "header", a "summary" with its count field, a data     *)
(* line ("record"), a "comment" (it starts with '#') or a "blank" line     *)
(* (empty once rstrip has run).                                            *)
(***************************************************************************)
Line(kind, count) == [kind |-> kind, count |-> count]

\* `while not line or line.startswith('#')` of _line_data.
Skipped(line) == line.kind \in {"blank", "comment"}

\* _line_data from position p: the line returned and the position after it,
\* or eof for ValueError('unexpected EOF').
RECURSIVE _line_data(_, _)
_line_data(f, p) ==
    IF p >= Len(f) THEN [eof |-> TRUE, pos |-> p]
    ELSE IF Skipped(f[p + 1]) THEN _line_data(f, p + 1)
    ELSE [eof |-> FALSE, pos |-> p + 1, line |-> f[p + 1]]

\* eof_check: one readline; any line at all is "data left over".
eof_check(f, p) == IF p >= Len(f) THEN "ok" ELSE "data left over"

RECURSIVE SeqsOfLen(_, _)
SeqsOfLen(S, n) ==
    IF n = 0 THEN {<<>>}
    ELSE {Append(s, x) : s \in SeqsOfLen(S, n - 1), x \in S}

\* What follows the summary lines: up to MaxBody data, comment and blank
\* lines in any order.
Bodies ==
    UNION {SeqsOfLen({Line("record", 0), Line("comment", 0), Line("blank", 0)}, n) :
           n \in 0 .. MaxBody}

\* The files read: an optional leading comment, the header, the three
\* summary lines with their counts, and a body.  The summary lines are one
\* for each of the types asn, ipv4 and ipv6, so data['summaries'], keyed by
\* type, keeps all three and num_records is the sum of the three counts.
Files ==
    {lead \o <<Line("header", 0), Line("summary", c[1]), Line("summary", c[2]),
               Line("summary", c[3])>> \o body :
        lead \in {<<>>, <<Line("comment", 0)>>},
        c \in [1 .. 3 -> 0 .. MaxCount],
        body \in Bodies}

(***************************************************************************)
(* The state a machine rests in while the specification of another runs.   *)
(***************************************************************************)
TrieIdle ==
    /\ tree = EmptyTrie
    /\ addr_type = v4
    /\ last = [op |-> "init", result |-> "ok", n_before |-> 0, over |-> FALSE]

CodecIdle ==
    /\ ip_net = [version |-> v4, packed |-> <<0, 0, 0, 0>>, prefixlen |-> 0]
    /\ bools = <<>>
    /\ decoded = "none"
    /\ cpc = "idle"

RangeIdle ==
    /\ start = 0 /\ num_in = 0 /\ current_start = 0 /\ num = 0
    /\ ip_bits = 0 /\ res = 0 /\ subnets = <<>> /\ rpc = "idle"

ParseIdle ==
    /\ fd = <<>> /\ pos = 0 /\ n_summaries = 0 /\ num_records = 0
    /\ n_parsed = 0 /\ ppc = "idle"

(***************************************************************************)
(* TrieSpec: one trie, calls made on it one at a time.                     *)
(* last.n_before is the number of entries held before the call; last.over  *)
(* tells an insert of more than max_prefix_len bits.                       *)
(***************************************************************************)
TrieInit ==
    /\ tree = EmptyTrie
    /\ addr_type \in IPVersion
    /\ last = [op |-> "init", result |-> "ok", n_before |-> 0, over |-> FALSE]
    /\ CodecIdle /\ RangeIdle /\ ParseIdle

Insert ==
    /\ \E it \in BitSeqs(addr_type), value \in Values,
          error_on_conflict \in BOOLEAN :
          LET r == insert(tree, addr_type, it, value, error_on_conflict)
          IN /\ Cardinality(DOMAIN r.tree) <= MaxNodes
             /\ tree' = r.tree
             /\ last' = [op |-> "insert", result |-> r.result,
                         n_before |-> Cardinality(Held(tree)),
                         over |-> Len(it) > max_prefix_len(addr_type)]
    /\ UNCHANGED <<addr_type, codecVars, rangeVars, parseVars>>

Merge ==
    /\ LET r == Trie_merge_entries(tree, addr_type)
       IN /\ tree' = r.tree
          /\ last' = [op |-> "merge",
                      result |-> IF r.raised THEN "too deep" ELSE "ok",
                      n_before |-> Cardinality(Held(tree)), over |-> FALSE]
    /\ UNCHANGED <<addr_type, codecVars, rangeVars, parseVars>>

Entries ==
    /\ last' = [op |-> "entries",
                result |-> IF Trie_get_entries(tree, addr_type).raised
                           THEN "prefix over" ELSE "ok",
                n_before |-> Cardinality(Held(tree)), over |-> FALSE]
    /\ UNCHANGED <<tree, addr_type, codecVars, rangeVars, parseVars>>

TrieNext == Insert \/ Merge \/ Entries

TrieSpec == TrieInit /\ [][TrieNext]_vars

(***************************************************************************)
(* CodecSpec: encode one network, then decode the bits.                    *)
(***************************************************************************)
CodecInit ==
    /\ ip_net \in Networks
    /\ bools = <<>>
    /\ decoded = "none"
    /\ cpc = "encode"
    /\ TrieIdle /\ RangeIdle /\ ParseIdle

Encode ==
    /\ cpc = "encode"
    /\ bools' = ip_to_bools(ip_net)
    /\ cpc' = "decode"
    /\ UNCHANGED <<ip_net, decoded, trieVars, rangeVars, parseVars>>

Decode ==
    /\ cpc = "decode"
    /\ decoded' = _bools_to_ip(ip_net.version, bools)
    /\ cpc' = "done"
    /\ UNCHANGED <<ip_net, bools, trieVars, rangeVars, parseVars>>

CodecNext == Encode \/ Decode

CodecSpec == CodecInit /\ [][CodecNext]_vars

(***************************************************************************)
(* RangeSpec: ipv4_range_to_subnets(start, num_in), drained by its caller. *)
(***************************************************************************)
RangeInit ==
    /\ start \in 0 .. AddrLimit - 1
    /\ num_in \in 1 .. AddrLimit
    /\ current_start = start
    /\ num = num_in
    /\ ip_bits = 0
    /\ res = 0
    /\ subnets = <<>>
    /\ rpc = "loop"
    /\ TrieIdle /\ CodecIdle /\ ParseIdle

\* `while num:` is false: the generator is exhausted.
RangeDone ==
    /\ rpc = "loop"
    /\ num = 0
    /\ rpc' = "done"
    /\ UNCHANGED <<start, num_in, current_start, num, ip_bits, res, subnets>>
    /\ UNCHANGED <<trieVars, codecVars, parseVars>>

\* `while num:` is true: get_host_max_len(current_start) is entered.
HostLenEnter ==
    /\ rpc = "loop"
    /\ num # 0
    /\ ip_bits' = current_start
    /\ res' = 0
    /\ rpc' = "hostlen"
    /\ UNCHANGED <<start, num_in, current_start, num, subnets>>
    /\ UNCHANGED <<trieVars, codecVars, parseVars>>

\* One turn of get_host_max_len's loop.
HostLenStep ==
    /\ rpc = "hostlen"
    /\ HostLenLoops(ip_bits)
    /\ ip_bits' = ip_bits \div 2
    /\ res' = (res + 1) % ResWrap
    /\ UNCHANGED <<start, num_in, current_start, num, subnets, rpc>>
    /\ UNCHANGED <<trieVars, codecVars, parseVars>>

\* get_host_max_len returns res; the block is yielded, num is decreased and
\* current_start advanced.  IPv4Address.__add__ raises AddressValueError
\* when the sum is 2^32 or more.
EmitBlock ==
    /\ rpc = "hostlen"
    /\ ~HostLenLoops(ip_bits)
    /\ LET bits == subnet_bits(num, res)
           current_subnet_hosts == Pow2(bits)
       IN /\ subnets' = Append(subnets, [address |-> current_start,
                                        prefixlen |-> AddrBits - bits])
          /\ num' = num - current_subnet_hosts
          /\ IF current_start + current_subnet_hosts >= AddrLimit
             THEN rpc' = "error" /\ UNCHANGED current_start
             ELSE /\ rpc' = "loop"
                  /\ current_start' = current_start + current_subnet_hosts
    /\ UNCHANGED <<start, num_in, ip_bits, res>>
    /\ UNCHANGED <<trieVars, codecVars, parseVars>>

RangeNext == RangeDone \/ HostLenEnter \/ HostLenStep \/ EmitBlock

RangeSpec == RangeInit /\ [][RangeNext]_vars

\* The generator runs in one thread and is drained by a for loop: a step
\* that can be taken is taken.
RangeFairSpec == RangeSpec /\ WF_vars(RangeNext)

(***************************************************************************)
(* ParseSpec: parse_file on one file.  What is done with a parsed record   *)
(* (filter, expansion, the insert into a trie) and the merge and drain of  *)
(* the tries read nothing from fd and are left to TrieSpec and RangeSpec.  *)
(***************************************************************************)
ParseInit ==
    /\ fd \in Files
    /\ pos = 0
    /\ n_summaries = 0
    /\ num_records = 0
    /\ n_parsed = 0
    /\ ppc = "header"
    /\ TrieIdle /\ CodecIdle /\ RangeIdle

\* data['header'] = parse_header(fd).
ParseHeader ==
    /\ ppc = "header"
    /\ LET r == _line_data(fd, pos)
       IN /\ pos' = r.pos
          /\ ppc' = IF r.eof THEN "unexpected EOF" ELSE "summaries"
    /\ UNCHANGED <<fd, n_summaries, num_records, n_parsed>>
    /\ UNCHANGED <<trieVars, codecVars, rangeVars>>

\* One parse_summary(fd) of the three; its count is added to num_records.
ParseSummary ==
    /\ ppc = "summaries"
    /\ LET r == _line_data(fd, pos)
       IN /\ pos' = r.pos
          /\ IF r.eof
             THEN ppc' = "unexpected EOF" /\ UNCHANGED <<n_summaries, num_records>>
             ELSE /\ n_summaries' = n_summaries + 1
                  /\ num_records' = num_records + r.line.count
                  /\ ppc' = IF n_summaries + 1 = 3 THEN "records" ELSE "summaries"
    /\ UNCHANGED <<fd, n_parsed>>
    /\ UNCHANGED <<trieVars, codecVars, rangeVars>>

\* One parse_record(fd) of the range(num_records).
ParseRecord ==
    /\ ppc = "records"
    /\ n_parsed < num_records
    /\ LET r == _line_data(fd, pos)
       IN /\ pos' = r.pos
          /\ IF r.eof
             THEN ppc' = "unexpected EOF" /\ UNCHANGED n_parsed
             ELSE n_parsed' = n_parsed + 1 /\ UNCHANGED ppc
    /\ UNCHANGED <<fd, n_summaries, num_records>>
    /\ UNCHANGED <<trieVars, codecVars, rangeVars>>

\* eof_check(fd) once the records are read; then the tries are merged and
\* drained and data is returned.
EofCheck ==
    /\ ppc = "records"
    /\ n_parsed = num_records
    /\ ppc' = IF eof_check(fd, pos) = "ok" THEN "returned" ELSE "data left over"
    /\ pos' = IF pos < Len(fd) THEN pos + 1 ELSE pos
    /\ UNCHANGED <<fd, n_summaries, num_records, n_parsed>>
    /\ UNCHANGED <<trieVars, codecVars, rangeVars>>

ParseNext == ParseHeader \/ ParseSummary \/ ParseRecord \/ EofCheck

ParseSpec == ParseInit /\ [][ParseNext]_vars

(***************************************************************************)
(* Properties of the trie.                                                 *)
(***************************************************************************)
ValidNets(family) == {b \in BitSeqs(family) : Len(b) <= max_prefix_len(family)}
Addresses(family) == BitSeqsOfLen(max_prefix_len(family))
\* The values the entries of t attribute to an address.
ValuesAt(t, addr) == {e.value : e \in {h \in Held(t) : IsPrefix(h.bits, addr)}}
IsLeaf(t, p) == \A q \in DOMAIN t : ~StrictlyBelow(p, q)

\* C1: an insert of more than max_prefix_len bits whose walk does not first
\* stop at a node with a terminal value fails with the prefix-length error,
\* and no sequence longer than the width is ever stored as an entry.
C1_OverlongInsertRejected ==
    /\ (/\ last.op = "insert"
        /\ last.over
        /\ last.result \notin {"dropped", "conflict", "prefix length over"})
       => last.result = "prefix over"
    /\ \A e \in Held(tree) : Len(e.bits) <= max_prefix_len(addr_type)

\* C4: in every reachable state no node carries a value together with a
\* child, no node with a value has a descendant with a value, and no two
\* entries yielded by entries() are such that one contains the other.
C4_NoNestedEntries ==
    /\ \A p \in DOMAIN tree : Truthy(tree[p]) => IsLeaf(tree, p)
    /\ \A p, q \in DOMAIN tree :
          Truthy(tree[p]) /\ Truthy(tree[q]) => ~StrictlyBelow(p, q)
    /\ LET e == Trie_get_entries(tree, addr_type).entries
       IN \A i, j \in 1 .. Len(e) : i # j => ~IsPrefix(e[i].bits, e[j].bits)

\* C4 witness: a conflict was raised on a trie that holds several entries.
C4_Witness ==
    /\ last.op = "insert" /\ last.result = "conflict"
    /\ Cardinality(Held(tree)) >= 2

\* C5: with an entry for A held, an insert of a valid network B strictly
\* inside A, with any value, leaves the trie as it was: it returns silently
\* when error_on_conflict is false and raises the conflict error when true.
C5_InsertUnderEntryChangesNothing ==
    \A A \in Held(tree) : \A B \in ValidNets(addr_type) :
        StrictlyBelow(A.bits, B) =>
            \A value \in Values, error_on_conflict \in BOOLEAN :
                LET r == insert(tree, addr_type, B, value, error_on_conflict)
                IN /\ r.tree = tree
                   /\ r.result = IF error_on_conflict THEN "conflict"
                                 ELSE "dropped"

\* C5 witness: an insert was dropped silently under an entry that is held.
C5_Witness ==
    /\ last.op = "insert" /\ last.result = "dropped" /\ ~last.over
    /\ Held(tree) # {}

\* The entries insert(A, value) is to leave, according to C6.
C6_Expected(A, value) ==
    {e \in Held(tree) : ~IsPrefix(A, e.bits)} \cup {[bits |-> A, value |-> value]}
C6_NoAncestor(A) == \A e \in Held(tree) : ~StrictlyBelow(e.bits, A)

\* C6 as stated: with no entry held at a strict ancestor of A, insert(A, v)
\* leaves the entry (A, v), removes every entry inside A and leaves every
\* entry disjoint from A unchanged, for every value v.
C6_InsertLeavesEntry ==
    \A A \in ValidNets(addr_type) : C6_NoAncestor(A) =>
        \A value \in Values, error_on_conflict \in BOOLEAN :
            LET r == insert(tree, addr_type, A, value, error_on_conflict)
            IN r.result = "ok" /\ Held(r.tree) = C6_Expected(A, value)

\* C6 as amended: the same for every non-empty value v; with an empty value
\* the entries inside A are removed, the disjoint ones are kept and no entry
\* is left for A.
C6_InsertLeavesNonEmptyEntry ==
    \A A \in ValidNets(addr_type) : C6_NoAncestor(A) =>
        \A value \in Values, error_on_conflict \in BOOLEAN :
            LET r == insert(tree, addr_type, A, value, error_on_conflict)
            IN /\ r.result = "ok"
               /\ Held(r.tree) =
                     IF Truthy(value) THEN C6_Expected(A, value)
                     ELSE {e \in Held(tree) : ~IsPrefix(A, e.bits)}

\* C6 witness: an insert ended normally and left fewer entries than before,
\* so it removed at least two entries beneath the one it stored.
C6_Witness ==
    /\ last.op = "insert" /\ last.result = "ok" /\ ~last.over
    /\ Held(tree) # {}
    /\ Cardinality(Held(tree)) < last.n_before

\* C7: merge changes neither the addresses covered nor the value attributed
\* to any of them; two sibling leaves with different values stay as they
\* are, and two with equal values give way to a shorter prefix with that
\* value.
C7_MergeKeepsCoverage ==
    LET r == Trie_merge_entries(tree, addr_type)
    IN /\ \A addr \in Addresses(addr_type) :
              ValuesAt(r.tree, addr) = ValuesAt(tree, addr)
       /\ \A p \in DOMAIN tree :
              LET left == Append(p, FALSE)
                  right == Append(p, TRUE)
              IN (/\ {left, right} \subseteq DOMAIN tree
                  /\ Truthy(tree[left]) /\ Truthy(tree[right])) =>
                    IF tree[left] # tree[right]
                    THEN /\ {left, right} \subseteq DOMAIN r.tree
                         /\ r.tree[left] = tree[left]
                         /\ r.tree[right] = tree[right]
                         /\ r.tree[p] = NoValue
                    ELSE r.raised \/
                         /\ {left, right} \cap DOMAIN r.tree = {}
                         /\ \E q \in DOMAIN r.tree :
                               IsPrefix(q, p) /\ r.tree[q] = tree[left]

\* C7 witness: a merge collapsed a pair and left several entries.
C7_Witness ==
    /\ last.op = "merge" /\ last.result = "ok"
    /\ Cardinality(Held(tree)) < last.n_before
    /\ Cardinality(Held(tree)) >= 2

\* Invariant I2: no node has two children that are leaves with equal,
\* non-empty values.
I2(t) ==
    \A p \in DOMAIN t :
        LET left == Append(p, FALSE)
            right == Append(p, TRUE)
        IN ~(/\ {left, right} \subseteq DOMAIN t
             /\ IsLeaf(t, left) /\ IsLeaf(t, right)
             /\ Truthy(t[left]) /\ t[left] = t[right])

\* C8: a merge that returns leaves no node with two equal-valued leaf
\* children, and a second merge changes nothing.
C8_MergeReachesFixpoint ==
    /\ (last.op = "merge" /\ last.result = "ok") => I2(tree)
    /\ LET r == Trie_merge_entries(tree, addr_type)
       IN ~r.raised =>
             /\ I2(r.tree)
             /\ Trie_merge_entries(r.tree, addr_type) = r

\* C8 witness: one merge collapsed three or more entries into the root, the
\* collapse of a pair having made a new pair one level up.
C8_Witness ==
    /\ last.op = "merge" /\ last.result = "ok"
    /\ last.n_before >= 3
    /\ Held(tree) = {[bits |-> <<>>, value |-> "X"]}

(***************************************************************************)
(* Properties of the bit codec.                                            *)
(***************************************************************************)
\* Bit i of an address, counted from its most significant bit.
AddressBit(packed, i) ==
    (packed[((i - 1) \div 8) + 1] \div Pow2(7 - ((i - 1) % 8))) % 2 = 1

\* C9: decoding the encoding of a valid network gives the network back, and
\* the encoding is its first prefixlen address bits, most significant first.
C9_RoundTrip ==
    /\ cpc \in {"decode", "done"} =>
          /\ Len(bools) = ip_net.prefixlen
          /\ \A i \in 1 .. Len(bools) : bools[i] = AddressBit(ip_net.packed, i)
    /\ cpc = "done" => decoded = ip_net

\* C9 witness: a v6 network of the full width, its bytes all different, was
\* decoded.
C9_Witness ==
    /\ cpc = "done"
    /\ ip_net.version = v6
    /\ ip_net.prefixlen = codec_max_prefix_len(v6)
    /\ ip_net.packed[1] = 17 /\ ip_net.packed[16] = 16

(***************************************************************************)
(* Properties of the range decomposition.                                  *)
(***************************************************************************)
BlockSize(b) == Pow2(AddrBits - b.prefixlen)

\* The least number of aligned power-of-two blocks that cover [a, b) exactly:
\* the block that holds a starts at a.
RECURSIVE MinBlocks(_, _)
MinBlocks(a, b) ==
    IF a >= b THEN 0
    ELSE LET sizes == {Pow2(k) : k \in {k \in 0 .. AddrBits :
                                      a % Pow2(k) = 0 /\ a + Pow2(k) <= b}}
             counts == {1 + MinBlocks(a + s, b) : s \in sizes}
         IN CHOOSE c \in counts : \A o \in counts : c <= o

\* The blocks are aligned, ascending, disjoint, cover [start, start + num_in)
\* exactly, and no fewer blocks do.
GoodDecomposition ==
    /\ \A i \in 1 .. Len(subnets) : subnets[i].address % BlockSize(subnets[i]) = 0
    /\ Len(subnets) >= 1
    /\ subnets[1].address = start
    /\ \A i \in 1 .. Len(subnets) - 1 :
          subnets[i + 1].address = subnets[i].address + BlockSize(subnets[i])
    /\ LET b == subnets[Len(subnets)]
       IN b.address + BlockSize(b) = start + num_in
    /\ Len(subnets) = MinBlocks(start, start + num_in)

\* Every run that completes leaves a good decomposition.
RangeDoneIsGood == rpc = "done" => GoodDecomposition

\* C2: for every start and every num >= 1 with start + num <= 2^32 the
\* decomposition completes without error, and its blocks are aligned,
\* disjoint, ascending, cover the range exactly and are as few as can be.
C2_DecompositionCompletes ==
    start + num_in <= AddrLimit =>
        /\ rpc # "error"
        /\ rpc = "done" => GoodDecomposition

\* C10: the decomposition terminates for every start address, 0.0.0.0
\* included, and every positive count.
C10_Terminates == <>(rpc \in {"done", "error"})

(***************************************************************************)
(* Properties of the reads of parse_file.                                  *)
(***************************************************************************)
\* The lines of fd after its first n data lines and the comment and blank
\* lines before them, counted from position p.
RECURSIVE AfterData(_, _)
AfterData(p, n) ==
    IF n = 0 \/ p >= Len(fd) THEN SubSeq(fd, p + 1, Len(fd))
    ELSE AfterData(p + 1, IF fd[p + 1].kind = "record" THEN n - 1 ELSE n)

KindCount(s, kind) == Cardinality({i \in 1 .. Len(s) : s[i].kind = kind})
DeclaredCount ==
    LET s == SelectSeq(fd, LAMBDA l : l.kind = "summary")
    IN s[1].count + s[2].count + s[3].count
\* The position after the third summary line.
BodyStart == CHOOSE p \in 0 .. Len(fd) :
                 /\ p > 0 /\ fd[p].kind = "summary"
                 /\ KindCount(SubSeq(fd, 1, p), "summary") = 3

\* C3: with N the sum of the declared counts, the parse fails with
\* unexpected EOF when the file has fewer than N data lines, fails with the
\* trailing-data error when a data line follows the N-th, and succeeds when
\* nothing or only comment lines follow the N-th data line.
C3_ReadsDeclaredCount ==
    ppc \in {"returned", "unexpected EOF", "data left over"} =>
        LET N == DeclaredCount
            D == KindCount(fd, "record")
            rest == AfterData(BodyStart, N)
        IN /\ D < N => ppc = "unexpected EOF"
           /\ D > N => ppc = "data left over"
           /\ (D = N /\ \A i \in 1 .. Len(rest) : rest[i].kind = "comment")
                 => ppc = "returned"

====
